---------------------------- MODULE Spec2Model ----------------------------
(***************************************************************************)
(* Model of Pyro.py: the OpenVPNController (process + management socket,   *)
(* line framing, management-protocol parsing) together with the MainWindow *)
(* slots that its signals are wired to.                                    *)
(*                                                                         *)
(* Bytes and characters are one-character strings; a Python bytes/str or a *)
(* QByteArray value is a sequence of them.  A Python dict is a set of      *)
(* <<key, value>> pairs, so {} is the empty dict.                          *)
(*                                                                         *)
(* Two specifications are given.  Spec is the application as wired:        *)
(* process_line is reached only from on_ready_read.  LineSpec drives the   *)
(* controller through its methods, process_line included, as a client of   *)
(* the class does; it is where the behaviour of process_line and of the    *)
(* slots behind its signals is checked.                                    *)
(***************************************************************************)
EXTENDS Integers, Sequences, FiniteSets, TLC

\* ------------------------------------------------------------------ bounds
\* Number of management messages the peer sends in one run.
MaxMsgs == 2
\* Number of clicks on Connect in one run.
MaxStarts == 2
\* Number of direct calls of process_line in one run.
MaxCalls == 2

\* --------------------------------------------------------- byte vocabulary
NL == "\n"
CR == "\r"
COMMA == ","

STATE_PREFIX == <<">", "S", "T", "A", "T", "E", ":">>
LOG_PREFIX == <<">", "L", "O", "G", ":">>
PASSWORD_PREFIX == <<">", "P", "A", "S", "S", "W", "O", "R", "D", ":">>
CONNECTED == <<"C", "O", "N", "N", "E", "C", "T", "E", "D">>
DISCONNECTED == <<"D", "I", "S", "C", "O", "N", "N", "E", "C", "T", "E", "D">>

\* ------------------------------------------------- Python string primitives
Front(s) == SubSeq(s, 1, Len(s) - 1)
Last(s) == s[Len(s)]

\* s.startswith(p)
StartsWith(s, p) == Len(s) >= Len(p) /\ SubSeq(s, 1, Len(p)) = p

\* s[n:]
SliceFrom(s, n) == SubSeq(s, n + 1, Len(s))

\* index (1-based) of the first c in s at or after position i, 0 when there
\* is none
RECURSIVE IndexFrom(_, _, _)
IndexFrom(s, c, i) ==
    IF i > Len(s) THEN 0
    ELSE IF s[i] = c THEN i
    ELSE IndexFrom(s, c, i + 1)

\* The pieces of s from position `from` on, cut at sep, at most maxsplit cuts.
RECURSIVE SplitFrom(_, _, _, _)
SplitFrom(s, sep, maxsplit, from) ==
    LET i == IF maxsplit = 0 THEN 0 ELSE IndexFrom(s, sep, from) IN
    IF i = 0 THEN <<SubSeq(s, from, Len(s))>>
    ELSE <<SubSeq(s, from, i - 1)>> \o SplitFrom(s, sep, maxsplit - 1, i + 1)

\* s.split(sep, maxsplit); maxsplit = -1 means no limit.  Always >= 1 piece.
Split(s, sep, maxsplit) == SplitFrom(s, sep, maxsplit, 1)

\* Python list indexing parts[i] (0-based) and its IndexError condition.
Item(parts, i) == parts[i + 1]
HasItem(parts, i) == i < Len(parts)


\* ------------------------------------------------------------ MainWindow UI
NA == <<"N", "/", "A">>
DisconnectedLabel == <<"D", "i", "s", "c", "o", "n", "n", "e", "c", "t", "e", "d">>

\* dict.get(key, default)
DictGet(d, key, default) ==
    IF \E kv \in d : kv[1] = key
    THEN (CHOOSE kv \in d : kv[1] = key)[2]
    ELSE default

\* MainWindow.setup_ui: the widgets the slots touch.  QPushButton is enabled
\* on construction; log_viewer holds the appended messages.
InitUI ==
    [status_label |-> DisconnectedLabel, server_label |-> NA, ip_label |-> NA,
     connect_button |-> TRUE, disconnect_button |-> TRUE, log_viewer |-> <<>>]

\* MainWindow.update_status(state, details)
update_status(w, state, dets) ==
    [w EXCEPT !.status_label = state,
              !.server_label = IF state = CONNECTED THEN DictGet(dets, "remote_ip", NA) ELSE NA,
              !.ip_label = IF state = CONNECTED THEN DictGet(dets, "local_ip", NA) ELSE NA,
              !.connect_button = (state = DISCONNECTED),
              !.disconnect_button = (state # DISCONNECTED)]

\* MainWindow.append_log(message)
append_log(w, message) == [w EXCEPT !.log_viewer = Append(@, message)]

\* ------------------------------------------------------------------ signals
\* One emitted signal, as the listener sees it.
StateChangedEv(state, dets) ==
    [type |-> "state_changed", state |-> state, details |-> dets, text |-> <<>>]
LogMessageEv(text) ==
    [type |-> "log_message", state |-> <<>>, details |-> {}, text |-> text]
AuthRequiredEv ==
    [type |-> "auth_required", state |-> <<>>, details |-> {}, text |-> <<>>]

\* The controller-side state a slot run reads and writes:
\*   buffer, current_state, details  -- OpenVPNController fields
\*   ui                              -- MainWindow widgets (slots run synchronously)
\*   events                          -- signals emitted so far
\*   handed                          -- arguments process_line was called with so far

\* state_changed.emit(state, details) with MainWindow.update_status connected
EmitStateChanged(S, state, dets) ==
    [S EXCEPT !.events = Append(@, StateChangedEv(state, dets)),
              !.ui = update_status(@, state, dets)]

\* log_message.emit(text) with MainWindow.append_log connected
EmitLogMessage(S, text) ==
    [S EXCEPT !.events = Append(@, LogMessageEv(text)),
              !.ui = append_log(@, text)]

\* auth_required.emit(): MainWindow.on_auth_required opens a modal dialog; the
\* caller suspends there (status "prompt").
EmitAuthRequired(S) == [S EXCEPT !.events = Append(@, AuthRequiredEv)]

\* ------------------------------------------------------------- process_line
\* Result: the state after the call and how the call ended:
\*   "ok"     returned normally
\*   "raised" an IndexError escaped
\*   "prompt" suspended inside auth_required.emit() (modal credential dialog)
\* Mutant: local and remote address taken from each other's field.
process_line_state_swapped(S, line) ==
    LET parts == Split(SliceFrom(line, 7), COMMA, -1) IN
    IF ~HasItem(parts, 1) THEN [S |-> S, status |-> "raised"]
    ELSE
      LET state == Item(parts, 1)
          S1 == [S EXCEPT !.current_state = state]
      IN IF state = CONNECTED
         THEN IF ~HasItem(parts, 4) THEN [S |-> S1, status |-> "raised"]
              ELSE LET dets == {<<"remote_ip", Item(parts, 3)>>, <<"local_ip", Item(parts, 4)>>}
                       S2 == [S1 EXCEPT !.details = dets]
                   IN [S |-> EmitStateChanged(S2, state, dets), status |-> "ok"]
         ELSE LET S2 == [S1 EXCEPT !.details = {}]
              IN [S |-> EmitStateChanged(S2, state, {}), status |-> "ok"]

\* Mutant: details not cleared when the new state is not CONNECTED.
process_line_state_keeps_details(S, line) ==
    LET parts == Split(SliceFrom(line, 7), COMMA, -1) IN
    IF ~HasItem(parts, 1) THEN [S |-> S, status |-> "raised"]
    ELSE
      LET state == Item(parts, 1)
          S1 == [S EXCEPT !.current_state = state]
      IN IF state = CONNECTED
         THEN IF ~HasItem(parts, 4) THEN [S |-> S1, status |-> "raised"]
              ELSE LET dets == {<<"remote_ip", Item(parts, 4)>>, <<"local_ip", Item(parts, 3)>>}
                       S2 == [S1 EXCEPT !.details = dets]
                   IN [S |-> EmitStateChanged(S2, state, dets), status |-> "ok"]
         ELSE [S |-> EmitStateChanged(S1, state, S1.details), status |-> "ok"]

\* '>STATE:' branch of process_line.
process_line_state(S, line) ==
    LET parts == Split(SliceFrom(line, 7), COMMA, -1) IN
    IF ~HasItem(parts, 1) THEN [S |-> S, status |-> "raised"]
    ELSE
      LET state == Item(parts, 1)
          S1 == [S EXCEPT !.current_state = state]
      IN IF state = CONNECTED
         THEN IF ~HasItem(parts, 4) THEN [S |-> S1, status |-> "raised"]
              ELSE LET dets == {<<"remote_ip", Item(parts, 4)>>, <<"local_ip", Item(parts, 3)>>}
                       S2 == [S1 EXCEPT !.details = dets]
                   IN [S |-> EmitStateChanged(S2, state, dets), status |-> "ok"]
         ELSE LET S2 == [S1 EXCEPT !.details = {}]
              IN [S |-> EmitStateChanged(S2, state, {}), status |-> "ok"]

\* '>LOG:' branch of process_line.
process_line_log(S, line) ==
    LET parts == Split(line, COMMA, 2) IN
    IF ~HasItem(parts, 2) THEN [S |-> S, status |-> "raised"]
    ELSE [S |-> EmitLogMessage(S, Item(parts, 2)), status |-> "ok"]

\* Mutant: a '>LOG:' line also resets the session state.
process_line_log_resets(S, line) ==
    IF StartsWith(line, STATE_PREFIX) THEN process_line_state(S, line)
    ELSE IF StartsWith(line, LOG_PREFIX)
    THEN process_line_log([S EXCEPT !.current_state = DISCONNECTED, !.details = {}], line)
    ELSE IF StartsWith(line, PASSWORD_PREFIX) THEN [S |-> EmitAuthRequired(S), status |-> "prompt"]
    ELSE [S |-> S, status |-> "ok"]

process_line(S, line) ==
    IF StartsWith(line, STATE_PREFIX) THEN process_line_state(S, line)
    ELSE IF StartsWith(line, LOG_PREFIX) THEN process_line_log(S, line)
    ELSE IF StartsWith(line, PASSWORD_PREFIX) THEN [S |-> EmitAuthRequired(S), status |-> "prompt"]
    ELSE [S |-> S, status |-> "ok"]

\* ------------------------------------------------------------ on_ready_read
\* Mutant: the complete lines are not taken out of the buffer.
on_ready_read_buffer_kept(S, data) ==
    LET buf == S.buffer \o data
        lines == Split(buf, NL, -1)
    IN [S |-> [S EXCEPT !.buffer = buf],
        status |-> IF Front(lines) = <<>> THEN "done" ELSE "raised"]

\* on_ready_read with `data` the QByteArray socket.readAll() returns.
\* buffer += data makes the buffer a QByteArray (bytes + QByteArray is a
\* QByteArray), split and pop work on it, and the buffer is assigned the
\* unterminated tail.  The loop then fails on the first complete line:
\* a QByteArray has no decode(), so line 91 raises AttributeError before
\* process_line is called, and no line of the read is processed.  Status
\* "done": no complete line, the slot returned; "raised": the exception left
\* the slot.
on_ready_read(S, data) ==
    LET buf == S.buffer \o data
        lines == Split(buf, NL, -1)
    IN [S |-> [S EXCEPT !.buffer = Last(lines)],
        status |-> IF Front(lines) = <<>> THEN "done" ELSE "raised"]

\* ------------------------------------------------------------ send_command
\* A command is a sequence of text pieces; the bytes written are the pieces
\* followed by the newline send_command appends.
CmdStateOn == <<"state on">>
CmdLogOn == <<"log on">>
CmdHoldRelease == <<"hold release">>
CmdSigterm == <<"signal SIGTERM">>
CmdUsername(u) == <<"username \"Auth\" ", u>>
CmdPassword(p) == <<"password \"Auth\" ", p>>

\* Mutant: the socket state is not looked at.
send_command_unguarded(sock, out, command) == out \o command \o <<NL>>

\* send_command(command): `out` is what has been written to the socket so far.
send_command(sock, out, command) ==
    IF sock = "ConnectedState" THEN out \o command \o <<NL>> ELSE out

\* Mutant: the hold is released before the subscriptions are made.
Handshake_hold_first(sock, out) ==
    send_command(sock, send_command(sock, send_command(sock, out, CmdHoldRelease), CmdStateOn),
                 CmdLogOn)

\* The three handshake commands of start_openvpn, in program order.
Handshake(sock, out) ==
    send_command(sock, send_command(sock, send_command(sock, out, CmdStateOn), CmdLogOn),
                 CmdHoldRelease)

ConnectErrorText == <<"Error: Could not connect to OpenVPN management socket.">>

\* ---------------------------------------------------------------- inputs
\* Management-protocol lines, without their terminator.
LineConnected == STATE_PREFIX \o <<"0", ",">> \o CONNECTED \o <<",", ",", "1", ",", "2">>
LineReconnecting == STATE_PREFIX \o <<"0", ",", "R", "E", "C", ",", ",", ",">>
LineDisconnected == STATE_PREFIX \o <<"0", ",">> \o DISCONNECTED \o <<",", ",", ",">>
LineStateNoToken == STATE_PREFIX \o <<"0">>
LineConnectedShort == STATE_PREFIX \o <<"0", ",">> \o CONNECTED
LineLog == LOG_PREFIX \o <<"0", ",", "I", ",", "a", ",", "b">>
LineLogShort == LOG_PREFIX \o <<"0">>
LinePassword == PASSWORD_PREFIX \o <<"x">>
LineUnknown == <<">", "F", ":", "x">>

\* The lines a caller may hand to process_line.
Lines ==
    {LineConnected, LineReconnecting, LineDisconnected, LineStateNoToken,
     LineConnectedShort, LineLog, LineLogShort, LinePassword, LineUnknown}

\* What the management peer may send: one complete line each, terminated by
\* a newline or by carriage return and newline.
Messages == {l \o <<NL>> : l \in Lines} \cup {LinePassword \o <<CR, NL>>}

\* How many bytes a read may find arrived: the peer's bytes arrive in segments
\* that end after a newline or after the colon of a message prefix, so a read
\* returns whole lines, or stops inside a line.
ArrivalPoints(w) == {k \in 1..Len(w) : w[k] \in {NL, ":"}}

\* What the user may type into the credential dialogs.
Usernames == {"alice"}
Passwords == {"secret"}

\* ------------------------------------------------------------------- state
VARIABLES
    process,        \* QProcess state: "NotRunning" | "Running"
    socket,         \* QTcpSocket state: "UnconnectedState" | "ConnectedState" | "ClosingState"
    conns,          \* how many times on_ready_read is connected to socket.readyRead
    buffer,         \* OpenVPNController.buffer
    current_state,  \* OpenVPNController.current_state
    details,        \* OpenVPNController.details
    ui,             \* MainWindow widgets
    events,         \* signals emitted by the controller, in order
    handed,         \* arguments of the process_line calls, in order
    recv,           \* bytes socket.readAll() has returned, in order
    written,        \* bytes written to the socket, in order
    wire,           \* bytes the peer has sent that readAll() has not returned yet
    pc,             \* "idle" | "username" | "password": process_line is inside
                    \* on_auth_required's first or second dialog
    username,       \* text entered in the first credential dialog; "" once a
                    \* dialog was cancelled, kept when the reply was submitted
    crash,          \* "none": no exception has escaped; "traceback": one has
                    \* and was printed; "abort": it aborted the interpreter
    nsent,          \* messages sent by the peer (bounded by MaxMsgs)
    nstarts,        \* clicks on Connect (bounded by MaxStarts)
    ncalls          \* direct calls of process_line (bounded by MaxCalls)

ctlvars == <<buffer, current_state, details, ui, events, handed>>
vars == <<process, socket, conns, buffer, current_state, details, ui, events, handed,
          recv, written, wire, pc, username, crash, nsent, nstarts, ncalls>>

\* The record the slot operators work on, and its write-back.
Ctl ==
    [buffer |-> buffer, current_state |-> current_state, details |-> details,
     ui |-> ui, events |-> events, handed |-> handed]

SetCtl(S) ==
    /\ buffer' = S.buffer
    /\ current_state' = S.current_state
    /\ details' = S.details
    /\ ui' = S.ui
    /\ events' = S.events
    /\ handed' = S.handed

\* MainWindow.__init__ / OpenVPNController.__init__
Init ==
    /\ process = "NotRunning"
    /\ socket = "UnconnectedState"
    /\ conns = 0
    /\ buffer = <<>>
    /\ current_state = DISCONNECTED
    /\ details = {}
    /\ ui = InitUI
    /\ events = <<>>
    /\ handed = <<>>
    /\ recv = <<>>
    /\ written = <<>>
    /\ wire = <<>>
    /\ pc = "idle"
    /\ username = ""
    /\ crash = "none"
    /\ nsent = 0
    /\ nstarts = 0
    /\ ncalls = 0

\* ------------------------------------------------------------ start_openvpn
\* process.start(...) then process.waitForStarted(2000).  start() on a process
\* that is already running only warns; otherwise the spawn succeeds or not.
ProcessAfterStart(proc, spawnFails) ==
    IF proc = "Running" \/ ~spawnFails THEN "Running" ELSE "NotRunning"

\* socket.connectToHost(...) then socket.waitForConnected(2000).  On a socket
\* that is already connected connectToHost only warns and the wait returns
\* true; on a closing socket the wait fails and resets it; otherwise the
\* endpoint accepts within the wait or not.
SocketAfterConnect(sock, unreachable) ==
    CASE sock = "ConnectedState" -> "ConnectedState"
      [] sock = "ClosingState" -> "UnconnectedState"
      [] OTHER -> IF unreachable THEN "UnconnectedState" ELSE "ConnectedState"

\* spawnFails: pkexec cannot be started within the wait.  unreachable: nothing
\* accepts on 127.0.0.1:7505 within the wait (the endpoint belongs to whatever
\* OpenVPN instance listens there, started by this program or not).
start_openvpn(spawnFails, unreachable) ==
    LET proc1 == ProcessAfterStart(process, spawnFails)
        sock1 == SocketAfterConnect(socket, unreachable)
        connected == (sock1 = "ConnectedState")
        S == EmitLogMessage(Ctl, ConnectErrorText)
    IN /\ process' = proc1
       /\ socket' = sock1
       /\ wire' = IF socket = "ConnectedState" THEN wire ELSE <<>>
       /\ IF connected
          THEN /\ conns' = conns + 1
               /\ written' = Handshake(sock1, written)
               /\ UNCHANGED ctlvars
          ELSE /\ SetCtl(S)
               /\ UNCHANGED <<conns, written>>
       /\ UNCHANGED <<recv, pc, username, crash, nsent, ncalls>>

\* MainWindow.on_connect_clicked with a configuration selected: connect_signal
\* runs start_openvpn.  The button must be enabled and no modal dialog open.
StartOpenVPN ==
    /\ crash # "abort" /\ pc = "idle" /\ ui.connect_button /\ nstarts < MaxStarts
    /\ nstarts' = nstarts + 1
    /\ \E spawnFails \in BOOLEAN, unreachable \in BOOLEAN :
         start_openvpn(spawnFails, unreachable)

\* --------------------------------------------------------------- disconnect
\* socket.disconnectFromHost(): a socket with unwritten data stays in
\* ClosingState until the event loop has written it.
SocketAfterDisconnect(sock) ==
    IF sock = "UnconnectedState" THEN "UnconnectedState" ELSE "ClosingState"

\* `hangs`: the process does not exit within waitForFinished(2000).
disconnect(hangs) ==
    /\ written' = send_command(socket, written, CmdSigterm)
    /\ process' = IF process = "Running" /\ ~hangs THEN "NotRunning" ELSE process
    /\ socket' = SocketAfterDisconnect(socket)
    /\ UNCHANGED <<conns, buffer, current_state, details, ui, events, handed, recv, wire,
                   pc, username, crash, nsent, ncalls>>

\* MainWindow.on_disconnect_clicked: disconnect_signal runs disconnect.
Disconnect ==
    /\ crash # "abort" /\ pc = "idle" /\ ui.disconnect_button
    /\ UNCHANGED nstarts
    /\ \E hangs \in BOOLEAN : disconnect(hangs)

\* ------------------------------------------------- readyRead -> on_ready_read
\* How one slot invocation ends, given r, the result of on_ready_read, and
\* `left`, the slots the emission still has to call.  An exception that
\* leaves the slot either aborts the interpreter (PyQt5 >= 5.5 calls qFatal)
\* or is printed and the emission goes on (older PyQt5, or an excepthook
\* installed by the environment): abortOnRaise says which.
SlotResult(r, left, abortOnRaise) ==
    IF r.status = "raised"
    THEN [S |-> r.S, status |-> IF abortOnRaise THEN "abort" ELSE "done",
          left |-> left, raised |-> TRUE]
    ELSE [S |-> r.S, status |-> "done", left |-> left, raised |-> FALSE]

\* One readyRead emission with n slots connected: the first slot's readAll()
\* returns `data`, the following ones find nothing left to read.  The emission
\* stops early when the interpreter is aborted.
RECURSIVE RunEmission(_, _, _, _)
RunEmission(S, data, n, abortOnRaise) ==
    LET q == SlotResult(on_ready_read(S, data), n - 1, abortOnRaise) IN
    IF q.status = "done" /\ q.left > 0
    THEN LET t == RunEmission(q.S, <<>>, q.left, abortOnRaise)
         IN [t EXCEPT !.raised = (t.raised \/ q.raised)]
    ELSE q

\* The state an emission leaves behind.
SettleAs(q) ==
    /\ SetCtl(q.S)
    /\ crash' = IF q.status = "abort" THEN "abort"
                ELSE IF q.raised THEN "traceback" ELSE crash

\* q is the emission when an escaping exception is printed, qAbort when it
\* aborts the interpreter; the two differ only when an exception does escape.
Settle(q, qAbort) ==
    IF q.raised THEN SettleAs(q) \/ SettleAs(qAbort) ELSE SettleAs(q)

\* Bytes arrive and the socket emits readyRead: every connected slot runs, and
\* the first one's readAll() returns the k bytes that have arrived.
OnReadyRead ==
    /\ crash # "abort" /\ pc = "idle" /\ socket = "ConnectedState" /\ conns >= 1 /\ wire # <<>>
    /\ \E k \in ArrivalPoints(wire) :
         /\ wire' = SubSeq(wire, k + 1, Len(wire))
         /\ recv' = recv \o SubSeq(wire, 1, k)
         /\ LET data == SubSeq(wire, 1, k)
            IN Settle(RunEmission(Ctl, data, conns, FALSE), RunEmission(Ctl, data, conns, TRUE))
    /\ UNCHANGED <<process, socket, conns, written, pc, username, nsent, nstarts, ncalls>>

\* ------------------------------------------------------------- process_line
\* A caller hands `line` to process_line.  The slots connected to the signals
\* run inside the call; a '>PASSWORD:' line leaves the call inside
\* on_auth_required's first dialog, an IndexError is reported to the caller.
ProcessLine ==
    /\ crash # "abort" /\ pc = "idle" /\ ncalls < MaxCalls
    /\ ncalls' = ncalls + 1
    /\ \E line \in Lines :
         LET r == process_line([Ctl EXCEPT !.handed = Append(@, line)], line)
         IN /\ SetCtl(r.S)
            /\ pc' = IF r.status = "prompt" THEN "username" ELSE "idle"
            /\ crash' = IF r.status = "raised" THEN "traceback" ELSE crash
    /\ UNCHANGED <<process, socket, conns, recv, written, wire, username, nsent, nstarts>>

\* ----------------------------------------------- MainWindow.on_auth_required
\* First dialog (username).  Cancel returns from the slot.
AuthUsername ==
    /\ crash # "abort" /\ pc = "username"
    /\ \E ok \in BOOLEAN, u \in Usernames :
         IF ok
         THEN pc' = "password" /\ username' = u
         ELSE pc' = "idle" /\ username' = ""
    /\ UNCHANGED <<process, socket, conns, buffer, current_state, details, ui, events,
                   handed, recv, written, wire, crash, nsent, nstarts, ncalls>>

\* Mutant: the password command is sent before the username command.
on_auth_required_send_password_first(sock, out, u, p) ==
    send_command(sock, send_command(sock, out, CmdPassword(p)), CmdUsername(u))

\* Second dialog (password).  OK sends the two commands, username first;
\* Cancel sends nothing.
on_auth_required_send(sock, out, u, p) ==
    send_command(sock, send_command(sock, out, CmdUsername(u)), CmdPassword(p))

AuthPassword ==
    /\ crash # "abort" /\ pc = "password"
    /\ pc' = "idle"
    /\ \E ok \in BOOLEAN, p \in Passwords :
         /\ written' = IF ok THEN on_auth_required_send(socket, written, username, p)
                       ELSE written
         /\ username' = IF ok THEN username ELSE ""
    /\ UNCHANGED <<process, socket, conns, buffer, current_state, details, ui, events,
                   handed, recv, wire, crash, nsent, nstarts, ncalls>>

\* -------------------------------------------------------------- environment
\* The management peer sends one more message on the open connection.
ServerSend ==
    /\ crash # "abort" /\ socket = "ConnectedState" /\ nsent < MaxMsgs
    /\ \E m \in Messages : wire' = wire \o m
    /\ nsent' = nsent + 1
    /\ UNCHANGED <<process, socket, conns, buffer, current_state, details, ui, events,
                   handed, recv, written, pc, username, crash, nstarts, ncalls>>

\* The external process terminates on its own.
ProcessExit ==
    /\ crash # "abort" /\ process = "Running"
    /\ process' = "NotRunning"
    /\ UNCHANGED <<socket, conns, buffer, current_state, details, ui, events, handed,
                   recv, written, wire, pc, username, crash, nsent, nstarts, ncalls>>

\* The peer closes the connection; the bytes that had not arrived are lost.
RemoteClose ==
    /\ crash # "abort" /\ socket = "ConnectedState"
    /\ socket' = "UnconnectedState"
    /\ wire' = <<>>
    /\ UNCHANGED <<process, conns, buffer, current_state, details, ui, events, handed,
                   recv, written, pc, username, crash, nsent, nstarts, ncalls>>

\* The event loop has written the pending bytes of a closing socket.
SocketClosed ==
    /\ crash # "abort" /\ socket = "ClosingState"
    /\ socket' = "UnconnectedState"
    /\ wire' = <<>>
    /\ UNCHANGED <<process, conns, buffer, current_state, details, ui, events, handed,
                   recv, written, pc, username, crash, nsent, nstarts, ncalls>>

\* ----------------------------------------------------------- specifications
\* The application: the user clicks, the peer sends and closes, the process
\* exits, the event loop delivers readyRead.
Next ==
    \/ StartOpenVPN
    \/ Disconnect
    \/ OnReadyRead
    \/ ServerSend
    \/ ProcessExit
    \/ RemoteClose
    \/ SocketClosed

Spec == Init /\ [][Next]_vars

\* When OnReadyRead can fire (its guard; every message ends with a newline,
\* so unread bytes always hold an arrival point).
ReadDue ==
    crash # "abort" /\ pc = "idle" /\ socket = "ConnectedState" /\ conns >= 1 /\ wire # <<>>

\* The Qt event loop keeps running: bytes in flight arrive and their readyRead
\* is delivered, a closing socket gets its pending bytes written.  Nothing
\* obliges the user, the peer or the process to act.  (Weak fairness of
\* OnReadyRead is written out with its guard for what ENABLED would compute.)
FairSpec ==
    /\ Spec
    /\ WF_vars(SocketClosed)
    /\ ([]<>(~ReadDue) \/ []<><<OnReadyRead>>_vars)

\* The controller and the window driven through their methods: lines are
\* handed to process_line by the caller, and the peer sends nothing.
LineNext ==
    \/ StartOpenVPN
    \/ Disconnect
    \/ ProcessLine
    \/ AuthUsername
    \/ AuthPassword
    \/ ProcessExit
    \/ RemoteClose
    \/ SocketClosed

LineSpec == Init /\ [][LineNext]_vars

\* As FairSpec: the event loop finishes closing a socket; no caller is
\* obliged to hand over another line.
FairLineSpec == LineSpec /\ WF_vars(SocketClosed)

\* ==================================================================== claims
\* Helpers used to state the claims.

\* Number of newline bytes in b, i.e. of complete lines.
CountNL(b) == Cardinality({i \in 1..Len(b) : b[i] = NL})

\* The fields of a '>STATE:' line after the prefix.
StateFields(line) == Split(SliceFrom(line, Len(STATE_PREFIX)), COMMA, -1)
WellFormedState(line) == StartsWith(line, STATE_PREFIX) /\ Len(StateFields(line)) >= 5
MalformedLog(line) == StartsWith(line, LOG_PREFIX) /\ Len(Split(line, COMMA, -1)) < 3

\* A '>STATE:' line with too few fields: no state token, or the token
\* CONNECTED without the two addresses.
ShortState(line) ==
    /\ StartsWith(line, STATE_PREFIX)
    /\ LET f == StateFields(line) IN Len(f) < 2 \/ (f[2] = CONNECTED /\ Len(f) < 5)

\* A line with none of the three prefixes process_line knows.
Unrecognised(line) ==
    /\ ~StartsWith(line, STATE_PREFIX)
    /\ ~StartsWith(line, LOG_PREFIX)
    /\ ~StartsWith(line, PASSWORD_PREFIX)

\* The lines that a read returning newBytes completes, given what the buffer
\* holds before it.
CompletedLines(newBytes) == Front(Split(buffer \o newBytes, NL, -1))

HandshakeBytes == <<"state on", NL, "log on", NL, "hold release", NL>>

\* The bytes of the last command written, if any.
LastCommandIs(cmd) ==
    /\ Len(written) >= Len(cmd) + 1
    /\ SubSeq(written, Len(written) - Len(cmd), Len(written)) = cmd \o <<NL>>

\* C2: start_openvpn called while the earlier session is still connected is
\* rejected: no second process, no second channel or readyRead connection, no
\* handshake written again, current_state, details and buffer untouched.
C2_SecondStartRejected ==
    [][(StartOpenVPN /\ socket = "ConnectedState") =>
          /\ process' = process /\ socket' = socket /\ conns' = conns
          /\ written' = written
          /\ current_state' = current_state /\ details' = details /\ buffer' = buffer]_vars

\* C3: after disconnect() returns, whether or not the process exited within
\* the wait, the socket is not connected and current_state is DISCONNECTED.
C3_DisconnectedAfterStop ==
    [][Disconnect => (socket' # "ConnectedState" /\ current_state' = DISCONNECTED)]_vars

\* C4: every start_openvpn whose channel connect succeeds writes exactly
\* 'state on', 'log on', 'hold release', in that order, and nothing else; a
\* start_openvpn whose connect fails writes nothing.
C4_HandshakeOrder ==
    [][StartOpenVPN =>
          IF socket' = "ConnectedState"
          THEN written' = written \o HandshakeBytes
          ELSE written' = written]_vars

\* C4 witness: a connect succeeded and the bytes written begin with the
\* handshake.
C4_Witness ==
    /\ socket = "ConnectedState" /\ conns = 1
    /\ Len(written) >= Len(HandshakeBytes)
    /\ SubSeq(written, 1, Len(HandshakeBytes)) = HandshakeBytes

\* C5: a process_line call with a well-formed '>STATE:' line sets
\* current_state to field[1] and adds exactly one event, a state_changed
\* carrying field[1], with local_ip = field[3] and remote_ip = field[4] as
\* details when field[1] is CONNECTED and no details for any other token.
C5_StateLine ==
    [][(/\ Len(handed') = Len(handed) + 1
        /\ SubSeq(handed', 1, Len(handed)) = handed
        /\ WellFormedState(Last(handed')))
       => LET f == StateFields(Last(handed'))
              dets == IF f[2] = CONNECTED
                      THEN {<<"local_ip", f[4]>>, <<"remote_ip", f[5]>>}
                      ELSE {}
          IN /\ current_state' = f[2]
             /\ details' = dets
             /\ events' = Append(events, StateChangedEv(f[2], dets))]_vars

\* C5 witness: the last line handed to process_line was the well-formed
\* CONNECTED line and it left its state, details and event.
C5_Witness ==
    /\ handed # <<>> /\ Last(handed) = LineConnected
    /\ current_state = CONNECTED
    /\ details = {<<"local_ip", <<"1">>>>, <<"remote_ip", <<"2">>>>}
    /\ events # <<>> /\ Last(events) = StateChangedEv(CONNECTED, details)

\* C6: details is non-empty only while current_state is CONNECTED.
C6_PeerInfoOnlyConnected == details # {} => current_state = CONNECTED

\* C6 witness: a session that had peer info has left CONNECTED and the peer
\* info is gone.
C6_Witness ==
    /\ \E i \in 1..Len(events) : events[i].type = "state_changed" /\ events[i].details # {}
    /\ current_state # CONNECTED /\ details = {}

\* C7: a read that completes a '>LOG:' line with fewer than 3 parts lets no
\* exception escape and has every line it completes processed; when that line
\* is the only one, no event is emitted and current_state and details stay.
C7_MalformedLogDropped ==
    [][\E newBytes \in {SubSeq(recv', Len(recv) + 1, Len(recv'))} :
         \E done \in {CompletedLines(newBytes)} :
            (newBytes # <<>> /\ \E i \in 1..Len(done) : MalformedLog(done[i])) =>
               /\ crash' = crash
               /\ Len(handed') = Len(handed) + Len(done)
               /\ (Len(done) = 1) =>
                     (events' = events /\ current_state' = current_state
                                       /\ details' = details)]_vars

\* C8: a start_openvpn that finds the process not started reports an error to
\* the listener and goes no further: no channel is connected, no readyRead
\* connection made, nothing written.
C8_NoConnectWithoutProcess ==
    [][(StartOpenVPN /\ process' # "Running") =>
          /\ socket' = socket /\ conns' = conns /\ written' = written
          /\ Len(events') = Len(events) + 1
          /\ Last(events').type = "log_message"]_vars

\* C9: a start_openvpn that fails (process not started, or channel not
\* connected) leaves current_state DISCONNECTED and reports the failure as one
\* log event.
C9_FailedStartDisconnected ==
    [][(StartOpenVPN /\ (process' # "Running" \/ socket' # "ConnectedState")) =>
          /\ current_state' = DISCONNECTED
          /\ Len(events') = Len(events) + 1
          /\ Last(events').type = "log_message"]_vars

\* C10: disconnect() leaves the framing buffer empty, and a second
\* disconnect() changes nothing the first one left and writes nothing more.
C10_DisconnectClearsBuffer ==
    [][Disconnect =>
          /\ buffer' = <<>>
          /\ (socket # "ConnectedState" =>
                (written' = written /\ socket' = SocketAfterDisconnect(socket)))]_vars

\* The channel was lost without disconnect() having closed it: disconnect()
\* on a connected socket writes 'signal SIGTERM' as the last command that
\* socket ever carries.
ChannelLost ==
    /\ socket = "UnconnectedState" /\ written # <<>> /\ ~LastCommandIs(CmdSigterm)

\* C11: once the channel is lost, current_state eventually is DISCONNECTED
\* and a log event has been emitted.
C11_LossSurfaced ==
    ChannelLost
        ~> (/\ current_state = DISCONNECTED
            /\ \E i \in 1..Len(events) : events[i].type = "log_message")

\* C12: a step that starts with the socket not connected and does not connect
\* it writes nothing, whatever it is (a disconnect() before any start or after
\* a loss, a credential reply given after the channel went away); and such a
\* disconnect() changes no controller field and emits nothing.
C12_NoWriteUnconnected ==
    [][socket # "ConnectedState" =>
          /\ (socket' # "ConnectedState" => written' = written)
          /\ (Disconnect => UNCHANGED <<buffer, current_state, details, events>>)]_vars

\* C12 witness: a credential request was raised, the channel went away, both
\* dialogs were answered and no credential command has been written.
C12_Witness ==
    /\ pc = "idle" /\ username # "" /\ socket # "ConnectedState"
    /\ written = HandshakeBytes

\* Every password command in the bytes written follows its username command
\* directly.
PasswordAfterUsername ==
    \A i \in 1..Len(written) :
        written[i] = "password \"Auth\" " =>
            /\ i >= 4
            /\ written[i - 3] = "username \"Auth\" "
            /\ written[i - 2] \in Usernames
            /\ written[i - 1] = NL

\* C13: while a credential dialog is open the only thing written is, on the
\* answer to the second dialog, the username command followed by the password
\* command, both with the realm "Auth" and the texts entered; the first dialog
\* writes nothing, a cancelled dialog writes nothing, and no password command
\* is ever written without its username command directly before it.
C13_UsernameThenPassword ==
    /\ []PasswordAfterUsername
    /\ [][/\ pc = "username" => written' = written
          /\ (pc = "password" /\ username' = "") => written' = written
          /\ (pc = "password" /\ written' # written) =>
                \E p \in Passwords :
                    written' = written \o <<"username \"Auth\" ", username, NL,
                                            "password \"Auth\" ", p, NL>>]_vars

\* C13 witness: a credential request was answered and its two commands are
\* the last bytes written.
C13_Witness ==
    /\ pc = "idle" /\ Len(written) >= 6
    /\ SubSeq(written, Len(written) - 5, Len(written)) =
           <<"username \"Auth\" ", "alice", NL, "password \"Auth\" ", "secret", NL>>

\* C16: in every state (the initial one and every one an on_ready_read
\* leaves) the buffer holds no newline and is exactly what was received after
\* the last newline.
C16_BufferIsTail ==
    /\ \A i \in 1..Len(buffer) : buffer[i] # NL
    /\ Len(buffer) <= Len(recv)
    /\ SubSeq(recv, Len(recv) - Len(buffer) + 1, Len(recv)) = buffer
    /\ (Len(buffer) < Len(recv) => recv[Len(recv) - Len(buffer)] = NL)

\* C16 witness: the reads brought a newline and the beginning of the next
\* line; that beginning, and nothing before the newline, is in the buffer.
C16_Witness ==
    /\ CountNL(recv) >= 1 /\ buffer # <<>> /\ Len(buffer) < Len(recv)

\* C17: a read that completes a '>STATE:' line with too few fields lets no
\* exception escape and has every line it completes processed; when that line
\* is the only one, no event is emitted and current_state and details stay.
C17_ShortStateDropped ==
    [][\E newBytes \in {SubSeq(recv', Len(recv) + 1, Len(recv'))} :
         \E done \in {CompletedLines(newBytes)} :
            (newBytes # <<>> /\ \E i \in 1..Len(done) : ShortState(done[i])) =>
               /\ crash' = crash
               /\ Len(handed') = Len(handed) + Len(done)
               /\ (Len(done) = 1) =>
                     (events' = events /\ current_state' = current_state
                                       /\ details' = details)]_vars

\* C18: a step in which no '>STATE:' line is handed to process_line leaves
\* current_state and details unchanged, whatever else it hands over ('>LOG:',
\* '>PASSWORD:' or unrecognised lines) or does; and a step that hands over
\* only unrecognised lines emits no event.
C18_OnlyStateLines ==
    [][LET new == {handed'[i] : i \in (Len(handed) + 1)..Len(handed')} IN
       /\ (\A line \in new : ~StartsWith(line, STATE_PREFIX)) =>
             (current_state' = current_state /\ details' = details)
       /\ (new # {} /\ \A line \in new : Unrecognised(line)) =>
             (events' = events)]_vars

\* C18 witness: with the session CONNECTED and its peer info set, an
\* unrecognised line was the last one processed and both are still there.
C18_Witness ==
    /\ pc = "idle" /\ handed # <<>> /\ Last(handed) = LineUnknown
    /\ current_state = CONNECTED /\ details # {}
    /\ Last(events).type = "state_changed"

\* The events that come from lines (all but start_openvpn's connect error).
LineEventCount ==
    Cardinality({i \in 1..Len(events) : events[i] # LogMessageEv(ConnectErrorText)})

\* C19: process_line has been called once for every complete line received,
\* and there is at most one event per line; however many times on_ready_read
\* is connected to readyRead.
C19_ExactlyOnce ==
    /\ Len(handed) = CountNL(recv)
    /\ LineEventCount <= Len(handed)

\* The session has reported a state other than DISCONNECTED (update_status
\* disabled the Connect button) and disconnect() has then closed the channel.
DisconnectRequested ==
    /\ ~ui.connect_button
    /\ socket # "ConnectedState" /\ LastCommandIs(CmdSigterm)

\* C20: once the user has disconnected such a session, the Connect button
\* eventually becomes enabled again.
C20_ConnectReenabled == DisconnectRequested ~> ui.connect_button

=============================================================================
